---- MODULE Spec2Model ----
(***************************************************************************)
(* The pipeline-run endpoints of the ZenML server                          *)
(* (src/src/zenml/zen_server/routers/runs_endpoints.py): seven handlers on *)
(* one router, each behind the router's authorize dependency, each a thin  *)
(* wrapper of one Run Store method.  The Run Store, the authorize          *)
(* capability, handle_exceptions and parse_optional_name_or_uuid are       *)
(* imported by the endpoints file and are modelled from their contracts.   *)
(***************************************************************************)
EXTENDS Naturals, FiniteSets, Sequences, TLC

VARIABLES
    runs,          \* the store's PipelineRun rows: run id -> record
    steps,         \* the store's StepRun rows: step id -> [run, name]
    nextRun,       \* number of the next run identifier to be issued
    nextStep,      \* number of the next step identifier to be issued
    req,           \* the requests in flight: slot -> request record
    deleted,       \* history: run ids for which a delete_run request succeeded
    createdSteps,  \* history: every <<step id, run id>> ever created
    plans,         \* the store's ActionPlanSchema rows: id -> row
    now,           \* the clock datetime.utcnow() reads
    shown,         \* the last response made of a row, per hydrate flag
    createdIn      \* history: the workspace each action plan was created in

schemaVars == <<plans, now, shown, createdIn>>

vars == <<runs, steps, nextRun, nextStep, req, deleted, createdSteps,
          plans, now, shown, createdIn>>

----------------------------------------------------------------------------
(* Bounds of the model *)

MaxRuns == 2
MaxSteps == 2
MaxClock == 3

\* request slots: one request at a time, or two racing requests
MainSlots == {1}
RaceSlots == {1, 2}
Slots == MainSlots \cup RaceSlots

----------------------------------------------------------------------------
(* Identifiers and the tokens that spell them *)

None == "None"
ValueError == "ValueError"

RunId(n) == "R" \o ToString(n)
StepId(n) == "T" \o ToString(n)
RunIds == {RunId(n) : n \in 1..MaxRuns}

WorkspaceIds == {"W1", "W2"}
StackIds == {"S1", "S2"}
PipelineIds == {"P1", "P2"}
Components == {"trainer", "evaluator"}

WorkspaceName(w) == IF w = "W1" THEN "alpha" ELSE "beta"

AllUUIDs == RunIds \cup WorkspaceIds \cup StackIds \cup PipelineIds

\* the two spellings of an identifier used here: str(uuid), and the same in braces
Hex(u) == "hex-" \o u
Braced(u) == "{hex-" \o u \o "}"
Junk == "not-a-uuid"

\* uuid.UUID(token): the identifier a token spells, in either spelling; ValueError
\* for a token that spells none
UUID(tok) ==
    IF \E u \in AllUUIDs : tok \in {Hex(u), Braced(u)}
    THEN CHOOSE u \in AllUUIDs : tok \in {Hex(u), Braced(u)}
    ELSE ValueError

\* parse_optional_name_or_uuid: None stays None, a token that spells an identifier
\* becomes that identifier, any other token is kept as a name
parse_optional_name_or_uuid(tok) ==
    IF tok = None THEN None
    ELSE IF UUID(tok) # ValueError THEN UUID(tok)
    ELSE tok

----------------------------------------------------------------------------
(* The Run Store.  Every method returns an outcome: the exception it raised *)
(* ("none" when it returned), the value returned, the number of store       *)
(* methods invoked, and the store's rows afterwards.                        *)

Stored == DOMAIN runs

StepsOf(u) == {s \in DOMAIN steps : steps[s].run = u}

Return(v) ==
    [exc |-> "none", value |-> v, calls |-> 1, runs |-> runs, steps |-> steps]

StoreRaise(e) ==
    [exc |-> e, value |-> {}, calls |-> 1, runs |-> runs, steps |-> steps]

\* an exception raised by the handler itself, before it reaches the store
Raise(e) ==
    [exc |-> e, value |-> {}, calls |-> 0, runs |-> runs, steps |-> steps]

\* the workspace filter is an identifier or a name
WorkspaceMatches(w, given) == given = w \/ given = WorkspaceName(w)

\* an identifier filter: the store compares identifiers, and resolves no text
IdMatches(stored, given) == given = stored

zen_store_list_runs(project_name_or_id, stack_id, pipeline_id) ==
    Return({u \in Stored :
        /\ project_name_or_id = None
             \/ WorkspaceMatches(runs[u].workspace, project_name_or_id)
        /\ stack_id = None \/ IdMatches(runs[u].stack, stack_id)
        /\ pipeline_id = None \/ IdMatches(runs[u].pipeline, pipeline_id)})

zen_store_get_run(run_id) ==
    IF run_id \notin Stored THEN StoreRaise("KeyError") ELSE Return({run_id})

\* a deletion that removes the run's row and leaves its steps behind
zen_store_delete_run_without_cascade(run_id) ==
    IF run_id \notin Stored THEN StoreRaise("KeyError")
    ELSE [exc |-> "none", value |-> {}, calls |-> 1,
          runs |-> [u \in Stored \ {run_id} |-> runs[u]],
          steps |-> steps]

zen_store_delete_run(run_id) ==
    IF run_id \notin Stored THEN StoreRaise("KeyError")
    ELSE [exc |-> "none", value |-> {}, calls |-> 1,
          runs |-> [u \in Stored \ {run_id} |-> runs[u]],
          steps |-> [s \in DOMAIN steps \ StepsOf(run_id) |-> steps[s]]]

zen_store_get_run_dag(run_id) ==
    IF run_id \notin Stored THEN StoreRaise("KeyError")
    ELSE IF runs[run_id].dag = None THEN StoreRaise("ArtifactUnavailable")
    ELSE Return({runs[run_id].dag})

zen_store_list_run_steps(run_id) ==
    IF run_id \notin Stored THEN StoreRaise("KeyError")
    ELSE Return(StepsOf(run_id))

zen_store_get_run_runtime_configuration(run_id) ==
    IF run_id \notin Stored THEN StoreRaise("KeyError")
    ELSE Return({runs[run_id].config})

zen_store_get_run_component_side_effects(run_id, component_id) ==
    IF run_id \notin Stored THEN StoreRaise("KeyError")
    ELSE IF component_id \notin runs[run_id].side_effects
         THEN StoreRaise("NoSideEffects")
    ELSE Return({"effects/" \o run_id \o "/" \o component_id})

----------------------------------------------------------------------------
(* The translation of exceptions into the externally visible outcome *)

Response(result, out) ==
    [result |-> result, value |-> out.value, calls |-> out.calls,
     runs |-> out.runs, steps |-> out.steps]

\* @handle_exceptions: every exception becomes the failure it stands for
handle_exceptions(out) ==
    Response(CASE out.exc = "none" -> "OK"
               [] out.exc = "KeyError" -> "NotFound"
               [] out.exc = "ValueError" -> "MalformedInput"
               [] out.exc = "ArtifactUnavailable" -> "ArtifactUnavailable"
               [] out.exc = "NoSideEffects" -> "NoSideEffects",
             out)

\* a handler without the decorator: an exception leaves it as it was raised, and
\* the caller sees an internal server error
undecorated(out) ==
    Response(IF out.exc = "none" THEN "OK" ELSE "InternalServerError", out)

----------------------------------------------------------------------------
(* The handlers of runs_endpoints.py *)

get_runs(project_name_or_id, stack_id, pipeline_id) ==
    handle_exceptions(
        zen_store_list_runs(parse_optional_name_or_uuid(project_name_or_id),
                            stack_id, pipeline_id))

\* get_run calling the store method of the handler below it
get_run_calling_delete(run_id) ==
    handle_exceptions(
        IF UUID(run_id) = ValueError THEN Raise(ValueError)
        ELSE zen_store_delete_run(UUID(run_id)))

get_run(run_id) ==
    handle_exceptions(
        IF UUID(run_id) = ValueError THEN Raise(ValueError)
        ELSE zen_store_get_run(UUID(run_id)))

\* delete_run without the decorator, as get_run_runtime_configuration is
delete_run_undecorated(run_id) ==
    undecorated(
        IF UUID(run_id) = ValueError THEN Raise(ValueError)
        ELSE zen_store_delete_run(UUID(run_id)))

\* delete_run calling the store method of the handler above it
delete_run_calling_get(run_id) ==
    handle_exceptions(
        IF UUID(run_id) = ValueError THEN Raise(ValueError)
        ELSE zen_store_get_run(UUID(run_id)))

delete_run(run_id) ==
    handle_exceptions(
        IF UUID(run_id) = ValueError THEN Raise(ValueError)
        ELSE zen_store_delete_run(UUID(run_id)))

\* get_run_dag asking the store for the run instead of its DAG
get_run_dag_calling_get(run_id) ==
    handle_exceptions(
        IF UUID(run_id) = ValueError THEN Raise(ValueError)
        ELSE zen_store_get_run(UUID(run_id)))

get_run_dag(run_id) ==
    handle_exceptions(
        IF UUID(run_id) = ValueError THEN Raise(ValueError)
        ELSE zen_store_get_run_dag(UUID(run_id)))

\* get_run_steps without the decorator
get_run_steps_undecorated(run_id) ==
    undecorated(
        IF UUID(run_id) = ValueError THEN Raise(ValueError)
        ELSE zen_store_list_run_steps(UUID(run_id)))

get_run_steps(run_id) ==
    handle_exceptions(
        IF UUID(run_id) = ValueError THEN Raise(ValueError)
        ELSE zen_store_list_run_steps(UUID(run_id)))

get_run_runtime_configuration(run_id) ==
    undecorated(
        IF UUID(run_id) = ValueError THEN Raise(ValueError)
        ELSE zen_store_get_run_runtime_configuration(UUID(run_id)))

get_run_component_side_effects(run_id, component_id) ==
    handle_exceptions(
        IF UUID(run_id) = ValueError THEN Raise(ValueError)
        ELSE zen_store_get_run_component_side_effects(UUID(run_id),
                                                      component_id))

\* a router built without its dependencies
RouterWithoutDependencies == {}

\* the router: the dependencies every route runs first, and the routes
RouterDependencies == {"authorize"}

PerRunOps ==
    {"get_run", "delete_run", "get_run_dag", "get_run_steps",
     "get_run_runtime_configuration", "get_run_component_side_effects"}

Operations == {"get_runs"} \cup PerRunOps

Route(r) ==
    CASE r.op = "get_runs" ->
            get_runs(r.project_name_or_id, r.stack_id, r.pipeline_id)
      [] r.op = "get_run" -> get_run(r.run_id)
      [] r.op = "delete_run" -> delete_run(r.run_id)
      [] r.op = "get_run_dag" -> get_run_dag(r.run_id)
      [] r.op = "get_run_steps" -> get_run_steps(r.run_id)
      [] r.op = "get_run_runtime_configuration" ->
            get_run_runtime_configuration(r.run_id)
      [] r.op = "get_run_component_side_effects" ->
            get_run_component_side_effects(r.run_id, r.component_id)

\* the authorize capability: rejects a caller without valid credentials
authorize(r) == r.authorized

----------------------------------------------------------------------------
(* Requests *)

Idle ==
    [pc |-> "idle", op |-> None, authorized |-> FALSE,
     run_id |-> None, component_id |-> None,
     project_name_or_id |-> None, stack_id |-> None, pipeline_id |-> None,
     result |-> None, value |-> {}, gate |-> 0, calls |-> 0,
     sawRun |-> FALSE, wasDeleted |-> FALSE, createdThen |-> {}]

Request(op, run, comp, proj, stack, pipe) ==
    [op |-> op, run_id |-> run, component_id |-> comp,
     project_name_or_id |-> proj, stack_id |-> stack, pipeline_id |-> pipe]

RunTokens == {Hex(u) : u \in RunIds} \cup {Braced(RunId(1)), Junk}

\* the requests of the sequential specification: every operation, every token
MainRequests ==
    {Request(op, t, None, None, None, None) :
        op \in PerRunOps \ {"get_run_component_side_effects"}, t \in RunTokens}
    \cup {Request("get_run_component_side_effects", t, c, None, None, None) :
        t \in RunTokens, c \in Components}
    \cup {Request("get_runs", None, None, p, s, q) :
        p \in {None, Hex("W1"), "beta"},
        s \in {None, Braced("S1"), Junk},
        q \in {None, Junk}}

\* the requests of the racing specification: reads and deletes of one run
RaceRequests ==
    {Request(op, Hex(RunId(1)), None, None, None, None) :
        op \in {"get_run", "get_run_steps", "delete_run"}}

\* the requests of the listing specification: every combination of filters
ListRequests ==
    {Request("get_runs", None, None, p, s, q) :
        p \in {None, Hex("W1"), "beta", "gamma"},
        s \in {None, Hex("S1"), Braced("S2")},
        q \in {None, Hex("P1"), Hex("P2")}}

\* the runs the execution engine creates: workspace, stack, pipeline
MainProfiles == {<<"W1", "S1", "P1">>}
ListProfiles == WorkspaceIds \X StackIds \X (PipelineIds \cup {None})

TypeOK ==
    /\ Stored \subseteq RunIds
    /\ nextRun \in 1..(MaxRuns + 1)
    /\ nextStep \in 1..(MaxSteps + 1)
    /\ deleted \subseteq RunIds
    /\ \A r \in Slots : req[r].pc \in {"idle", "gate", "handler", "done"}

Init ==
    /\ runs = <<>>
    /\ steps = <<>>
    /\ nextRun = 1
    /\ nextStep = 1
    /\ req = [r \in Slots |-> Idle]
    /\ deleted = {}
    /\ createdSteps = {}
    /\ plans = <<>>
    /\ now = 1
    /\ shown = <<>>
    /\ createdIn = <<>>

----------------------------------------------------------------------------
(* The execution engine, which writes the rows the service serves *)

EngineCreateRun(Profiles) ==
    /\ nextRun <= MaxRuns
    /\ \E p \in Profiles :
        runs' = [u \in Stored \cup {RunId(nextRun)} |->
                    IF u \in Stored THEN runs[u]
                    ELSE [id |-> u, workspace |-> p[1], stack |-> p[2],
                          pipeline |-> p[3], dag |-> None,
                          config |-> "config/" \o u, side_effects |-> {}]]
    /\ nextRun' = nextRun + 1
    /\ UNCHANGED <<steps, nextStep, req, deleted, createdSteps>>
    /\ UNCHANGED schemaVars

EngineAddStep ==
    /\ nextStep <= MaxSteps
    /\ \E u \in Stored :
        /\ steps' = [s \in DOMAIN steps \cup {StepId(nextStep)} |->
                        IF s \in DOMAIN steps THEN steps[s]
                        ELSE [run |-> u, name |-> "step" \o ToString(nextStep)]]
        /\ createdSteps' = createdSteps \cup {<<StepId(nextStep), u>>}
    /\ nextStep' = nextStep + 1
    /\ UNCHANGED <<runs, nextRun, req, deleted>>
    /\ UNCHANGED schemaVars

EngineRenderDag ==
    /\ \E u \in Stored :
        /\ runs[u].dag = None
        /\ runs' = [runs EXCEPT ![u].dag = "dag/" \o u]
    /\ UNCHANGED <<steps, nextRun, nextStep, req, deleted, createdSteps>>
    /\ UNCHANGED schemaVars

EngineRecordSideEffects ==
    /\ \E u \in Stored :
        /\ "trainer" \notin runs[u].side_effects
        /\ runs' = [runs EXCEPT ![u].side_effects = @ \cup {"trainer"}]
    /\ UNCHANGED <<steps, nextRun, nextStep, req, deleted, createdSteps>>
    /\ UNCHANGED schemaVars

----------------------------------------------------------------------------
\* history kept for the properties: the steps ever created for run u
CreatedStepsOf(u) == {p[1] : p \in {q \in createdSteps : q[2] = u}}

(* One request: received, gated by the router's dependencies, handled, answered *)

Receive(S, Requests) ==
    /\ \E r \in S, q \in Requests, auth \in BOOLEAN :
        /\ req[r].pc = "idle"
        /\ req' = [req EXCEPT ![r] =
                     [Idle EXCEPT !.pc = "gate", !.op = q.op,
                          !.authorized = auth,
                          !.run_id = q.run_id,
                          !.component_id = q.component_id,
                          !.project_name_or_id = q.project_name_or_id,
                          !.stack_id = q.stack_id,
                          !.pipeline_id = q.pipeline_id]]
    /\ UNCHANGED <<runs, steps, nextRun, nextStep, deleted, createdSteps>>
    /\ UNCHANGED schemaVars

Gate ==
    /\ \E r \in Slots :
        /\ req[r].pc = "gate"
        /\ req' = [req EXCEPT ![r] =
                     IF "authorize" \notin RouterDependencies
                     THEN [@ EXCEPT !.pc = "handler"]
                     ELSE IF authorize(req[r])
                     THEN [@ EXCEPT !.pc = "handler", !.gate = @ + 1]
                     ELSE [@ EXCEPT !.pc = "done", !.gate = @ + 1,
                                    !.result = "Unauthorized"]]
    /\ UNCHANGED <<runs, steps, nextRun, nextStep, deleted, createdSteps>>
    /\ UNCHANGED schemaVars

Handle ==
    /\ \E r \in Slots :
        /\ req[r].pc = "handler"
        /\ LET out == Route(req[r])
               u == UUID(req[r].run_id)
           IN  /\ req' = [req EXCEPT ![r] =
                            [@ EXCEPT !.pc = "done",
                                      !.result = out.result,
                                      !.value = out.value,
                                      !.calls = @ + out.calls,
                                      !.sawRun = u \in Stored,
                                      !.wasDeleted = u \in deleted,
                                      !.createdThen = CreatedStepsOf(u)]]
               /\ runs' = out.runs
               /\ steps' = out.steps
               /\ deleted' = IF req[r].op = "delete_run" /\ out.result = "OK"
                             THEN deleted \cup {u} ELSE deleted
    /\ UNCHANGED <<nextRun, nextStep, createdSteps>>
    /\ UNCHANGED schemaVars

Respond ==
    /\ \E r \in Slots :
        /\ req[r].pc = "done"
        /\ req' = [req EXCEPT ![r] = Idle]
    /\ UNCHANGED <<runs, steps, nextRun, nextStep, deleted, createdSteps>>
    /\ UNCHANGED schemaVars

Engine(Profiles) ==
    \/ EngineCreateRun(Profiles)
    \/ EngineAddStep
    \/ EngineRenderDag
    \/ EngineRecordSideEffects

Next ==
    \/ Engine(MainProfiles)
    \/ Receive(MainSlots, MainRequests)
    \/ Gate
    \/ Handle
    \/ Respond

Spec == Init /\ [][Next]_vars

NextRace ==
    \/ EngineCreateRun(MainProfiles)
    \/ EngineAddStep
    \/ Receive(RaceSlots, RaceRequests)
    \/ Gate
    \/ Handle
    \/ Respond

SpecRace == Init /\ [][NextRace]_vars

NextList ==
    \/ EngineCreateRun(ListProfiles)
    \/ Receive(MainSlots, ListRequests)
    \/ Gate
    \/ Handle
    \/ Respond

SpecList == Init /\ [][NextList]_vars

----------------------------------------------------------------------------
(* The action-plan rows (zen_stores/schemas/action_plan_schemas.py) *)

runVars == <<runs, steps, nextRun, nextStep, req, deleted, createdSteps>>

PlanIds == {"A1"}
Flavors == {"webhook", "builtin"}

\* a request's configuration: a dictionary, here of at most one key
Configurations == {{}, {<<"retries", "3">>}}

\* json.dumps of such a dictionary
json_dumps(d) ==
    IF d = {} THEN "{}"
    ELSE LET p == CHOOSE p \in d : TRUE
         IN  "{\"" \o p[1] \o "\": " \o p[2] \o "}"

utcnow == now

\* ActionPlanSchema.from_request: the flavor and the serialized configuration of
\* the request; workspace_id is not among the arguments and stays unset
from_request(request) ==
    [id |-> request.id, workspace_id |-> None,
     flavor |-> request.flavor,
     configuration |-> json_dumps(request.configuration),
     created |-> utcnow, updated |-> utcnow]

\* to_model with a hydrated branch that adds a metadata field and forgets one
\* of the body
to_model_hydrated_without_updated(self, hydrate) ==
    [response |->
        IF hydrate
        THEN [id |-> self.id, body_created |-> self.created,
              metadata_flavor |-> self.flavor]
        ELSE [id |-> self.id, body_created |-> self.created,
              body_updated |-> self.updated],
     self |-> self]

\* ActionPlanSchema.to_model: the response, and the row, which it leaves alone;
\* the hydrate flag is not read
to_model(self, hydrate) ==
    [response |-> [id |-> self.id, body_created |-> self.created,
                   body_updated |-> self.updated],
     self |-> self]

\* ActionPlanSchema.update: every field the update object sets is copied onto
\* the row, then the updated timestamp is taken from the clock
update(self, upd) ==
    [[f \in DOMAIN self |-> IF f \in DOMAIN upd THEN upd[f] ELSE self[f]]
        EXCEPT !.updated = utcnow]

\* update objects: any of these fields set (update.dict(exclude_unset=True))
UpdateFields == {"workspace_id", "flavor", "configuration"}

FieldValues(f) ==
    CASE f = "workspace_id" -> WorkspaceIds
      [] f = "flavor" -> Flavors
      [] f = "configuration" -> {json_dumps(d) : d \in Configurations}

Updates ==
    UNION {{u \in [D -> UNION {FieldValues(f) : f \in UpdateFields}] :
               \A f \in D : u[f] \in FieldValues(f)} :
           D \in SUBSET UpdateFields}

PlanRequests ==
    [id : PlanIds, workspace : WorkspaceIds, flavor : Flavors,
     configuration : Configurations]

\* the store creates the row of a request in the request's workspace
CreateActionPlan ==
    /\ \E request \in PlanRequests :
        /\ request.id \notin DOMAIN plans
        /\ plans' = [a \in DOMAIN plans \cup {request.id} |->
                        IF a \in DOMAIN plans THEN plans[a]
                        ELSE [from_request(request) EXCEPT
                                 !.workspace_id = request.workspace]]
        /\ createdIn' = [a \in DOMAIN plans \cup {request.id} |->
                            IF a \in DOMAIN plans THEN createdIn[a]
                            ELSE request.workspace]
    /\ UNCHANGED <<now, shown>>
    /\ UNCHANGED runVars

UpdateActionPlan ==
    /\ \E a \in DOMAIN plans, upd \in Updates :
        plans' = [plans EXCEPT ![a] = update(plans[a], upd)]
    /\ UNCHANGED <<now, shown, createdIn>>
    /\ UNCHANGED runVars

ProjectActionPlan ==
    /\ \E a \in DOMAIN plans, hydrate \in BOOLEAN :
        LET out == to_model(plans[a], hydrate)
        IN  /\ plans' = [plans EXCEPT ![a] = out.self]
            /\ shown' = [h \in DOMAIN shown \cup {hydrate} |->
                            IF h = hydrate
                            THEN [response |-> out.response,
                                  of |-> plans[a], at |-> now]
                            ELSE shown[h]]
    /\ UNCHANGED <<now, createdIn>>
    /\ UNCHANGED runVars

Tick ==
    /\ now < MaxClock
    /\ now' = now + 1
    /\ UNCHANGED <<plans, shown, createdIn>>
    /\ UNCHANGED runVars

NextPlan ==
    \/ CreateActionPlan
    \/ UpdateActionPlan
    \/ ProjectActionPlan
    \/ Tick

SpecPlan == Init /\ [][NextPlan]_vars

----------------------------------------------------------------------------
(* Properties *)

\* a request that passed the gate and ran its handler to the end
Handled(r) == req[r].pc = "done" /\ req[r].result # "Unauthorized"

\* the handler of request r runs in this step
Handles(r) == req[r].pc = "handler" /\ req'[r].pc = "done"

\* C1: for every operation and every caller, a request the authorization gate
\* rejects ends with Unauthorized and reaches no Run Store method; the gate is
\* evaluated exactly once per request, and before the store call.
C1_GateBeforeStore ==
    \A r \in Slots :
        /\ req[r].pc \in {"handler", "done"} => req[r].gate = 1
        /\ req[r].pc \in {"idle", "gate"} => req[r].gate = 0 /\ req[r].calls = 0
        /\ req[r].calls > 0 => req[r].gate = 1 /\ req[r].authorized
        /\ req[r].pc = "done" /\ ~req[r].authorized =>
              req[r].result = "Unauthorized" /\ req[r].calls = 0
        /\ req[r].result = "Unauthorized" => req[r].calls = 0

\* an unauthorized delete of a stored run was rejected and the run is still stored
C1_Witness ==
    \E r \in Slots :
        /\ req[r].pc = "done" /\ req[r].op = "delete_run"
        /\ ~req[r].authorized /\ req[r].result = "Unauthorized"
        /\ UUID(req[r].run_id) \in Stored

\* C2: once delete_run(R) has succeeded, R is never stored again and every
\* get_run(R) handled afterwards fails with NotFound.
C2_DeleteIsDurable ==
    /\ deleted \cap Stored = {}
    /\ \A r \in Slots :
          Handled(r) /\ req[r].op = "get_run" /\ req[r].wasDeleted =>
              req[r].result = "NotFound"

C2_Witness ==
    \E r \in Slots :
        /\ Handled(r) /\ req[r].op = "get_run" /\ req[r].wasDeleted
        /\ req[r].result = "NotFound"
        /\ Stored # {}

\* C3: every stored step belongs to a stored run, and once delete_run(R) has
\* succeeded list_run_steps(R) fails with NotFound: it returns no sequence,
\* not an empty one.
C3_DeleteCascades ==
    /\ \A s \in DOMAIN steps : steps[s].run \in Stored
    /\ \A r \in Slots :
          Handled(r) /\ req[r].op = "get_run_steps" /\ req[r].wasDeleted =>
              req[r].result = "NotFound"

\* the steps of a run that had steps were listed after the run was deleted
C3_Witness ==
    \E r \in Slots :
        /\ Handled(r) /\ req[r].op = "get_run_steps" /\ req[r].wasDeleted
        /\ req[r].result = "NotFound"
        /\ CreatedStepsOf(UUID(req[r].run_id)) # {}

\* C4: a read of run R racing delete_run(R) sees R with all of its steps or
\* NotFound; in no state is R stored with some of its steps removed, or a step
\* of R stored while R is gone.
C4_NoPartialDelete ==
    /\ \A u \in RunIds :
          \/ u \in Stored /\ StepsOf(u) = CreatedStepsOf(u)
          \/ u \notin Stored /\ StepsOf(u) = {}
    /\ \A r \in Slots :
          Handled(r) /\ req[r].op \in {"get_run", "get_run_steps"} =>
              \/ /\ req[r].result = "OK" /\ req[r].sawRun
                 /\ req[r].op = "get_run_steps" =>
                       req[r].value = req[r].createdThen
              \/ req[r].result = "NotFound" /\ ~req[r].sawRun

\* a read of a run with steps got all of them while a delete of that run, past
\* the gate, had not yet reached the store
C4_Witness ==
    \E r1, r2 \in Slots :
        /\ Handled(r1) /\ req[r1].op = "get_run_steps"
        /\ req[r1].result = "OK" /\ req[r1].value # {}
        /\ req[r2].pc = "handler" /\ req[r2].op = "delete_run"
        /\ req[r2].run_id = req[r1].run_id

\* C5: delete_run of an identifier with no stored run fails with NotFound, and
\* of two delete_run requests on the same run exactly one succeeds and the
\* other fails with NotFound.
C5_DeleteNotIdempotent ==
    /\ \A r \in Slots :
          /\ Handled(r) /\ req[r].op = "delete_run"
          /\ UUID(req[r].run_id) # ValueError
          =>  /\ req[r].sawRun => req[r].result = "OK"
              /\ ~req[r].sawRun => req[r].result = "NotFound"
    /\ \A r1, r2 \in Slots :
          /\ r1 # r2 /\ Handled(r1) /\ Handled(r2)
          /\ req[r1].op = "delete_run" /\ req[r2].op = "delete_run"
          /\ UUID(req[r1].run_id) = UUID(req[r2].run_id)
          /\ req[r1].sawRun
          => req[r1].result = "OK" /\ req[r2].result = "NotFound"

\* two deletes of the same run are both answered: one succeeded, one did not
C5_Witness ==
    \E r1, r2 \in Slots :
        /\ r1 # r2 /\ Handled(r1) /\ Handled(r2)
        /\ req[r1].op = "delete_run" /\ req[r2].op = "delete_run"
        /\ req[r1].run_id = req[r2].run_id
        /\ req[r1].result = "OK" /\ req[r2].result = "NotFound"
        /\ req[r2].wasDeleted

\* C6: for an identifier with no stored run, get_run, list_run_steps,
\* get_run_runtime_configuration and get_run_component_side_effects all end
\* with NotFound: each translates the store's error.
C6_AbsentRunIsNotFound ==
    \A r \in Slots :
        /\ Handled(r)
        /\ req[r].op \in {"get_run", "get_run_steps",
                          "get_run_runtime_configuration",
                          "get_run_component_side_effects"}
        /\ UUID(req[r].run_id) # ValueError
        /\ ~req[r].sawRun
        => req[r].result = "NotFound"

\* an identifier token of request r that spells no identifier
Malformed(tok) == tok # None /\ UUID(tok) = ValueError

HasMalformedToken(r) ==
    \/ Malformed(req[r].run_id)
    \/ Malformed(req[r].stack_id)
    \/ Malformed(req[r].pipeline_id)

\* C7: a request with an identifier token (run_id, or the stack or pipeline
\* filter of list runs) that cannot be parsed fails with MalformedInput before
\* any Run Store method is called.
C7_MalformedBeforeStore ==
    \A r \in Slots :
        Handled(r) /\ HasMalformedToken(r) =>
            req[r].result = "MalformedInput" /\ req[r].calls = 0

\* C8: a request that ends in a failure, and a read that succeeds, leave the
\* store's runs and steps as they were.
C8_FailuresAndReadsKeepStore ==
    [][\A r \in Slots :
          /\ req[r].pc # "done" /\ req'[r].pc = "done"
          /\ req'[r].result # "OK" \/ req'[r].op # "delete_run"
          => runs' = runs /\ steps' = steps]_vars

\* a delete of an absent run failed while another run and its steps are stored
C8_Witness ==
    \E r \in Slots :
        /\ Handled(r) /\ req[r].op = "delete_run"
        /\ req[r].result = "NotFound"
        /\ Stored # {} /\ DOMAIN steps # {}

\* the runs a list request asks for: a run passes a filter when the filter is
\* omitted or its token spells the run's workspace (by identifier or by name),
\* stack or pipeline
Asked(r) ==
    {u \in Stored :
        /\ \/ r.project_name_or_id = None
           \/ UUID(r.project_name_or_id) = runs[u].workspace
           \/ r.project_name_or_id = WorkspaceName(runs[u].workspace)
        /\ r.stack_id = None \/ UUID(r.stack_id) = runs[u].stack
        /\ r.pipeline_id = None \/ UUID(r.pipeline_id) = runs[u].pipeline}

\* C9: list runs returns exactly the stored runs that pass every supplied
\* filter, an omitted filter constraining nothing; the result is a subset of
\* the unfiltered listing, and a listing that matches nothing is an empty
\* success.
C9_ListFilters ==
    [][\A r \in Slots :
          Handles(r) /\ req[r].op = "get_runs" =>
              /\ req'[r].result = "OK"
              /\ req'[r].value = Asked(req[r])
              /\ req'[r].value \subseteq get_runs(None, None, None).value]_vars

\* C10: get_run_dag(R) fails with NotFound exactly when no run R is stored and
\* with ArtifactUnavailable exactly when R is stored without a DAG; it returns
\* a locator only for a run that has one.
C10_DagFailureModes ==
    [][\A r \in Slots :
          /\ Handles(r) /\ req[r].op = "get_run_dag"
          /\ UUID(req[r].run_id) # ValueError
          => LET u == UUID(req[r].run_id)
             IN  /\ req'[r].result = "NotFound" <=> u \notin Stored
                 /\ req'[r].result = "ArtifactUnavailable" <=>
                       (u \in Stored /\ runs[u].dag = None)
                 /\ req'[r].result = "OK" <=>
                       (u \in Stored /\ runs[u].dag # None)
                 /\ req'[r].result = "OK" =>
                       req'[r].value = {runs[u].dag}]_vars

\* the DAG of a stored run that has none yet was asked for
C10_Witness ==
    \E r \in Slots :
        /\ Handled(r) /\ req[r].op = "get_run_dag"
        /\ req[r].sawRun /\ req[r].result = "ArtifactUnavailable"

\* C11: the workspace of a stored action plan is the one it was created in, in
\* every state, whatever update objects have been applied to it.
C11_WorkspaceImmutable ==
    \A a \in DOMAIN plans : plans[a].workspace_id = createdIn[a]

\* every field of response lean is in response full, with the same value
Within(lean, full) ==
    \A f \in DOMAIN lean : f \in DOMAIN full /\ full[f] = lean[f]

\* the row was projected with flag h in this step
Projected(h) ==
    /\ h \in DOMAIN shown'
    /\ h \notin DOMAIN shown \/ shown'[h] # shown[h]

Monotone ==
    /\ \A a \in DOMAIN plans :
          Within(to_model(plans[a], FALSE).response,
                 to_model(plans[a], TRUE).response)
    /\ {FALSE, TRUE} \subseteq DOMAIN shown /\ shown[FALSE].of = shown[TRUE].of
          => Within(shown[FALSE].response, shown[TRUE].response)

\* C12: every field of the projection without hydration is in the hydrated
\* projection of the same row with the same value; projecting a row again with
\* the same flag, the row not having changed, gives the same response; and a
\* projection leaves the rows as they were.
C12_Projection ==
    [][/\ Monotone'
       /\ \A h \in BOOLEAN :
             Projected(h) =>
                /\ plans' = plans
                /\ h \in DOMAIN shown /\ shown[h].of = shown'[h].of
                      => shown'[h].response = shown[h].response]_vars

\* an updated row was projected with and without hydration, at different times
C12_Witness ==
    /\ {FALSE, TRUE} \subseteq DOMAIN shown
    /\ shown[FALSE].of = shown[TRUE].of
    /\ shown[FALSE].at # shown[TRUE].at
    /\ shown[TRUE].of.updated # shown[TRUE].of.created
    /\ shown[FALSE].response = shown[TRUE].response

====
